---- MODULE Spec2Model ----
(***************************************************************************)
(* Model of insole_app_with_explanation.py: one run of the Streamlit       *)
(* script main(): the widgets, the sensor fetch over TCP, the 12-bit       *)
(* decoder, the arch classifier, the recommendation lookup and the         *)
(* result display.                                                         *)
(***************************************************************************)
EXTENDS Integers, Sequences, FiniteSets, TLC

(***************************************************************************)
(* Program constants                                                       *)
(***************************************************************************)
\* while len(data) < 5404
FrameLen == 5404
\* for i in range(0, 5400, 3)
DecodeLen == 5400
\* s.recv(1024)
RecvSize == 1024
\* sensor_values[:3600]
NumValues == 3600
\* reshape((60, 60))
GridSide == 60
\* if total_ratio < 22
HighBelow == 22
\* elif total_ratio > 28
FlatAbove == 28

REQUEST_BYTES == <<0, 1, 2>>

\* the python value None, where the other values are grids, records or ints
None == [none |-> TRUE]
\* and where the other values are strings
NoneStr == "None"
\* a python int, where the other values are strings or None
PyInt(n) == [int |-> n]

(***************************************************************************)
(* Bounds of the model                                                     *)
(***************************************************************************)
\* recv calls that return data in one fetch
MaxReads == 7
\* byte streams the sensor may transmit
NumStreams == 2

\* number of bytes one recv may return: 1..1024 in the program
PacketSizes == {1, 284, RecvSize - 1, RecvSize}

(***************************************************************************)
(* The sensor: the byte it transmits at position p (0-based) of stream k.  *)
(* Stream 0 is the frame 0x12 0x34 0x56 repeated; the others are ramps.    *)
(***************************************************************************)
StreamByte(k, p) ==
    IF k = 0 THEN <<18, 52, 86>>[(p % 3) + 1]
    ELSE (p * (2 * k + 5) + 11 * k + (p \div 256)) % 256

Packet(k, from, n) == [j \in 1..n |-> StreamByte(k, from + j - 1)]

(***************************************************************************)
(* Python integer operators on non-negative integers                       *)
(***************************************************************************)
RECURSIVE BitOr(_, _)
BitOr(a, b) ==
    IF a = 0 THEN b
    ELSE IF b = 0 THEN a
    ELSE (IF a % 2 = 1 \/ b % 2 = 1 THEN 1 ELSE 0) + 2 * BitOr(a \div 2, b \div 2)

RECURSIVE BitAnd(_, _)
BitAnd(a, b) ==
    IF a = 0 \/ b = 0 THEN 0
    ELSE (IF a % 2 = 1 /\ b % 2 = 1 THEN 1 ELSE 0) + 2 * BitAnd(a \div 2, b \div 2)

Shl(a, n) == a * (2 ^ n)
Shr(a, n) == a \div (2 ^ n)

(***************************************************************************)
(* get_pressure_matrix, lines 33-42: the decoder                           *)
(***************************************************************************)
\* val1 = (v1 << 4) | (v2 >> 4)
Val1(v1, v2, v3) == BitOr(Shl(v1, 4), Shr(v2, 4))
\* a mask of 0xFF in place of 0x0F
Val2WideMask(v1, v2, v3) == BitOr(Shl(BitAnd(v2, 255), 8), v3)
\* val2 = ((v2 & 0x0F) << 8) | v3
Val2(v1, v2, v3) == BitOr(Shl(BitAnd(v2, 15), 8), v3)

\* The number of 3-byte groups the loop decodes: i runs over 0, 3, ..., 5397
\* and the loop breaks at the first i with i + 2 >= len(data). The break
\* condition is monotone in i, so the groups decoded are those before it.
GroupsDecoded(d) ==
    Cardinality({g \in 0..(DecodeLen \div 3 - 1) : ~(3 * g + 2 >= Len(d))})

\* len(sensor_values) after the loop: two values for each group
ValuesDecoded(d) == 2 * GroupsDecoded(d)

\* sensor_values after the loop: group g contributes val1 then val2
SensorValues(d) ==
    [j \in 1..ValuesDecoded(d) |->
        LET g == (j - 1) \div 2
            v1 == d[3 * g + 1]
            v2 == d[3 * g + 2]
            v3 == d[3 * g + 3]
        IN IF j % 2 = 1 THEN Val1(v1, v2, v3) ELSE Val2(v1, v2, v3)]

\* len(s[:3600]) for a list of n values
TruncatedLen(n) == IF n <= NumValues THEN n ELSE NumValues

\* s[:3600]
Truncate(s) == SubSeq(s, 1, TruncatedLen(Len(s)))

\* reshape in column-major order (order='F')
ReshapeColumnMajor(s) ==
    [r \in 1..GridSide |-> [c \in 1..GridSide |-> s[GridSide * (c - 1) + r]]]

\* np.array(s).reshape((60, 60)) raises ValueError unless s holds exactly
\* 60 * 60 values (n is len(s))
ReshapeOk(n) == n = GridSide * GridSide
\* and is row-major where it does not raise
Reshape(s) ==
    [r \in 1..GridSide |-> SubSeq(s, GridSide * (r - 1) + 1, GridSide * r)]

(***************************************************************************)
(* Python float arithmetic (IEEE 754 binary64, round to nearest, ties to   *)
(* even) as far as line 69 uses it. A positive double is a record          *)
(* [mant, exp] of value mant * 2^exp, where mant is its 53-bit significand *)
(* written as <<1, d1, d2, d3, d4>>: the leading bit, then four digits of  *)
(* 13 bits each. Zero is the record [zero].                                *)
(***************************************************************************)
DigitBits == 13
NumDigits == 4
Base == 2 ^ DigitBits

Zero == [zero |-> TRUE]
IsZero(x) == "zero" \in DOMAIN x

\* the number of bits of n > 0
RECURSIVE BitLen(_)
BitLen(n) == IF n < 2 THEN 1 ELSE 1 + BitLen(n \div 2)

\* ds + 1, the carry running into the leading element
RECURSIVE Inc(_)
Inc(ds) ==
    IF Len(ds) = 1 THEN <<ds[1] + 1>>
    ELSE IF ds[Len(ds)] + 1 < Base
         THEN SubSeq(ds, 1, Len(ds) - 1) \o <<ds[Len(ds)] + 1>>
         ELSE Inc(SubSeq(ds, 1, Len(ds) - 1)) \o <<0>>

\* Round to nearest, ties to even: kept is the significand truncated, half
\* says how the discarded part compares with half a unit in the last place.
RoundEven(kept, half, exp) ==
    LET up == half = "above" \/ (half = "equal" /\ kept[NumDigits + 1] % 2 = 1)
        inc == Inc(kept)
    IN IF ~up THEN [mant |-> kept, exp |-> exp]
       ELSE IF inc[1] = 1 THEN [mant |-> inc, exp |-> exp]
       ELSE [mant |-> <<1>> \o [i \in 1..NumDigits |-> 0], exp |-> exp + 1]

\* the next n digits of the quotient r / a, for a remainder r < a < 2^16
RECURSIVE QuotDigits(_, _, _)
QuotDigits(r, a, n) ==
    IF n = 0 THEN <<>>
    ELSE <<(r * Base) \div a>> \o QuotDigits((r * Base) % a, a, n - 1)

\* the remainder after those n digits
RECURSIVE QuotRem(_, _, _)
QuotRem(r, a, n) == IF n = 0 THEN r ELSE QuotRem((r * Base) % a, a, n - 1)

\* the e with 2^e <= m / a < 2^(e+1), for m, a > 0
RECURSIVE Log2Quot(_, _)
Log2Quot(m, a) ==
    IF m < a THEN Log2Quot(2 * m, a) - 1
    ELSE IF m >= 2 * a THEN Log2Quot(m, 2 * a) + 1
    ELSE 0

\* int / int for 0 <= m < 2^15 and 0 < a < 2^15: the double nearest to the
\* exact quotient
TrueDiv(m, a) ==
    IF m = 0 THEN Zero
    ELSE LET e == Log2Quot(m, a)
             mm == IF e < 0 THEN m * (2 ^ (0 - e)) ELSE m
             aa == IF e > 0 THEN a * (2 ^ e) ELSE a
             r0 == mm - aa
             kept == <<1>> \o QuotDigits(r0, aa, NumDigits)
             rem == QuotRem(r0, aa, NumDigits)
             half == IF 2 * rem > aa THEN "above"
                     ELSE IF 2 * rem = aa THEN "equal" ELSE "below"
         IN RoundEven(kept, half, e - NumDigits * DigitBits)

\* ds * k + c digit by digit from the last, for a small k > 0; the leading
\* element of the result holds what exceeds the digits below it
RECURSIVE MulDigits(_, _, _)
MulDigits(ds, k, c) ==
    IF Len(ds) = 1 THEN <<ds[1] * k + c>>
    ELSE LET t == ds[Len(ds)] * k + c
         IN MulDigits(SubSeq(ds, 1, Len(ds) - 1), k, t \div Base) \o <<t % Base>>

\* p shifted right by s bits, 0 <= s <= 13, p[1] < 2^(s+1)
ShiftRight(p, s) ==
    [i \in 1..Len(p) |->
        IF i = 1 THEN p[1] \div (2 ^ s)
        ELSE (p[i - 1] % (2 ^ s)) * (2 ^ (DigitBits - s)) + p[i] \div (2 ^ s)]

\* float * int for 0 < k < 2^13: the double nearest to the exact product
MulInt(x, k) ==
    IF IsZero(x) THEN Zero
    ELSE LET p == MulDigits(x.mant, k, 0)
             s == BitLen(p[1]) - 1
             lost == p[Len(p)] % (2 ^ s)
             half == IF s = 0 \/ 2 * lost < 2 ^ s THEN "below"
                     ELSE IF 2 * lost = 2 ^ s THEN "equal" ELSE "above"
         IN RoundEven(ShiftRight(p, s), half, x.exp + s)

\* the double of an int, 0 < n < 2^14 (exact)
FloatOfInt(n) ==
    LET l == BitLen(n) - 1
    IN [mant |-> <<1, (n - 2 ^ l) * (2 ^ (DigitBits - l))>>
                   \o [i \in 1..(NumDigits - 1) |-> 0],
        exp |-> l - NumDigits * DigitBits]

\* x < y for significands
MantLess(x, y) ==
    \E i \in 1..Len(x) : x[i] < y[i] /\ \A j \in 1..(i - 1) : x[j] = y[j]

\* float < int and float > int, for a float x >= 0 and an int n > 0
FloatLess(x, n) ==
    IF IsZero(x) THEN TRUE
    ELSE LET y == FloatOfInt(n)
         IN x.exp < y.exp \/ (x.exp = y.exp /\ MantLess(x.mant, y.mant))

FloatGreater(x, n) ==
    IF IsZero(x) THEN FALSE
    ELSE LET y == FloatOfInt(n)
         IN x.exp > y.exp \/ (x.exp = y.exp /\ MantLess(y.mant, x.mant))

(***************************************************************************)
(* classify_arch_by_image, lines 66-75. The image enters through the two   *)
(* measurements the function takes on it: m = red_area + yellow_area and   *)
(* a = total_bbox_area.                                                    *)
(***************************************************************************)
\* total_ratio = (red_area + yellow_area) / total_bbox_area * 100
\*               if total_bbox_area else 0
TotalRatio(m, a) == IF a # 0 THEN MulInt(TrueDiv(m, a), 100) ELSE Zero

\* the last label misspelt
ClassifyLowercase(m, a) ==
    IF FloatLess(TotalRatio(m, a), HighBelow) THEN "High"
    ELSE IF FloatGreater(TotalRatio(m, a), FlatAbove) THEN "Flat"
    ELSE "normal"

Classify(m, a) ==
    IF FloatLess(TotalRatio(m, a), HighBelow) THEN "High"
    ELSE IF FloatGreater(TotalRatio(m, a), FlatAbove) THEN "Flat"
    ELSE "Normal"

(***************************************************************************)
(* Module-level data, lines 91-96, and the labels                          *)
(***************************************************************************)
\* The program's labels are Japanese strings; the module names them in ASCII.
\* "O-kyaku" (bow legs), "X-kyaku" (knock knees), "seijou" (normal)
LegO == "O-kyaku"
LegX == "X-kyaku"
LegNormal == "seijou"
\* "gaihan-boshi" (hallux valgus), the arch label the checkbox forces
HalluxLabel == "gaihan-boshi"
\* "gaitou-nashi" (no match), the default of pattern_table.get
NoMatch == [str |-> "gaitou-nashi"]

\* st.radio's options
LegOptions == {LegO, LegX, LegNormal}

\* the rows of High and of the hallux valgus label exchanged
PatternTableSwapped ==
    (<<"Flat", LegO>> :> 1) @@ (<<"Flat", LegX>> :> 2) @@
    (<<"Flat", LegNormal>> :> 3) @@
    (<<HalluxLabel, LegO>> :> 4) @@ (<<HalluxLabel, LegX>> :> 5) @@
    (<<HalluxLabel, LegNormal>> :> 6) @@
    (<<"High", LegO>> :> 7) @@ (<<"High", LegX>> :> 8) @@
    (<<"High", LegNormal>> :> 9) @@
    (<<"Normal", LegO>> :> 10) @@ (<<"Normal", LegX>> :> 11) @@
    (<<"Normal", LegNormal>> :> 12)

PatternTable ==
    (<<"Flat", LegO>> :> 1) @@ (<<"Flat", LegX>> :> 2) @@
    (<<"Flat", LegNormal>> :> 3) @@
    (<<"High", LegO>> :> 4) @@ (<<"High", LegX>> :> 5) @@
    (<<"High", LegNormal>> :> 6) @@
    (<<HalluxLabel, LegO>> :> 7) @@ (<<HalluxLabel, LegX>> :> 8) @@
    (<<HalluxLabel, LegNormal>> :> 9) @@
    (<<"Normal", LegO>> :> 10) @@ (<<"Normal", LegX>> :> 11) @@
    (<<"Normal", LegNormal>> :> 12)

\* pattern_table.get(pattern_key, NoMatch)
Lookup(table, key) ==
    IF key \in DOMAIN table THEN PyInt(table[key]) ELSE NoMatch

\* the flag ignored
ArchTypeIgnoresFlag(hallux, m, a) == Classify(m, a)
\* arch_type = HalluxLabel if hallux_valgus else classify_arch_by_image(image_cv)
ArchType(hallux, m, a) == IF hallux THEN HalluxLabel ELSE Classify(m, a)
\* the conditional expression evaluates the call only when the flag is unset
ClassifierInvoked(hallux) == ~hallux

(***************************************************************************)
(* Inputs of the model                                                     *)
(***************************************************************************)
\* red_area + yellow_area and total_bbox_area of the heatmaps considered
MaskCounts == {0, 1, 7, 11, 219, 281}
BoxAreas == {0, 4, 25, 50, 1000}
Images == [m : MaskCounts, a : BoxAreas]

(***************************************************************************)
(* State                                                                   *)
(***************************************************************************)
VARIABLES
    pc,              \* position of the script run
    hallux_valgus,   \* st.checkbox value
    leg_shape,       \* st.radio value
    stream,          \* which byte stream the connected sensor transmits
    connects,        \* s.connect calls made in this run
    sent,            \* requests handed to s.sendall, in order
    reads,           \* s.recv calls that returned data, in this fetch
    peer_closed,     \* a recv returned the empty packet
    data,            \* get_pressure_matrix's local data
    exc,             \* the call that raised inside the try block, or None
    errors,          \* st.error messages shown in this run
    raised,          \* the exception that escaped main, or None
    matrix,          \* main's local matrix
    image,           \* the heatmap, as the classifier's two measurements
    classifier_calls,\* classify_arch_by_image invocations in this run
    arch_type,
    insole_number,
    shown,           \* the result block (st.image .. st.info) was rendered
    pdfs,            \* create_pdf invocations in this run
    pattern_table    \* the module-level dict

vars == <<pc, hallux_valgus, leg_shape, stream, connects, sent, reads,
          peer_closed, data, exc, errors, raised, matrix, image,
          classifier_calls, arch_type, insole_number, shown, pdfs,
          pattern_table>>

widgetVars == <<hallux_valgus, leg_shape>>
fetchVars == <<stream, connects, sent, reads, peer_closed, data>>
mainVars == <<image, classifier_calls, arch_type, insole_number, shown, pdfs>>

Init ==
    /\ pc = "start"
    /\ hallux_valgus = FALSE
    /\ leg_shape = LegO
    /\ stream = 0
    /\ connects = 0
    /\ sent = <<>>
    /\ reads = 0
    /\ peer_closed = FALSE
    /\ data = <<>>
    /\ exc = NoneStr
    /\ errors = 0
    /\ raised = NoneStr
    /\ matrix = None
    /\ image = None
    /\ classifier_calls = 0
    /\ arch_type = NoneStr
    /\ insole_number = None
    /\ shown = FALSE
    /\ pdfs = 0
    /\ pattern_table = PatternTable

(***************************************************************************)
(* main, lines 123-126: the widgets and the start button                   *)
(***************************************************************************)
ReadWidgets ==
    /\ pc = "start"
    /\ \E h \in BOOLEAN, l \in LegOptions :
          /\ hallux_valgus' = h
          /\ leg_shape' = l
    /\ pc' = "button"
    /\ UNCHANGED <<fetchVars, exc, errors, raised, matrix, mainVars, pattern_table>>

\* st.button returned False: the script ends
ButtonIdle ==
    /\ pc = "button"
    /\ pc' = "done"
    /\ UNCHANGED <<widgetVars, fetchVars, exc, errors, raised, matrix, mainVars,
                   pattern_table>>

\* st.button returned True: get_pressure_matrix is entered
ButtonPressed ==
    /\ pc = "button"
    /\ pc' = "connect"
    /\ UNCHANGED <<widgetVars, fetchVars, exc, errors, raised, matrix, mainVars,
                   pattern_table>>

(***************************************************************************)
(* get_pressure_matrix, lines 17-30: the fetch                             *)
(***************************************************************************)
\* the handler connects again instead of returning
ExceptHandlerRetries ==
    /\ errors' = errors + 1
    /\ matrix' = None
    /\ data' = <<>>
    /\ reads' = 0
    /\ peer_closed' = FALSE
    /\ pc' = "connect"

\* lines 28-30: except Exception as e: st.error(...); return None. The locals
\* are gone; in main "if matrix is not None" is false and the script ends.
ExceptHandler ==
    /\ errors' = errors + 1
    /\ matrix' = None
    /\ data' = <<>>
    /\ reads' = 0
    /\ peer_closed' = FALSE
    /\ pc' = "done"

\* s.connect((HOST, PORT)) succeeds
ConnectOk ==
    /\ pc = "connect"
    /\ connects' = connects + 1
    /\ \E k \in 0..(NumStreams - 1) : stream' = k
    /\ pc' = "send"
    /\ UNCHANGED <<widgetVars, sent, reads, peer_closed, data, exc, errors, raised,
                   matrix, mainVars, pattern_table>>

\* s.connect raises (unreachable, refused, timed out)
ConnectRaises ==
    /\ pc = "connect"
    /\ connects' = connects + 1
    /\ exc' = "connect"
    /\ ExceptHandler
    /\ UNCHANGED <<widgetVars, stream, sent, raised, mainVars, pattern_table>>

\* s.sendall(REQUEST_BYTES); data = b""
SendOk ==
    /\ pc = "send"
    /\ sent' = Append(sent, REQUEST_BYTES)
    /\ data' = <<>>
    /\ pc' = "recv"
    /\ UNCHANGED <<widgetVars, stream, connects, reads, peer_closed, exc, errors,
                   raised, matrix, mainVars, pattern_table>>

\* s.sendall raises
SendRaises ==
    /\ pc = "send"
    /\ exc' = "send"
    /\ ExceptHandler
    /\ UNCHANGED <<widgetVars, stream, connects, sent, raised, mainVars,
                   pattern_table>>

\* <= in place of <
LoopContinuesInclusive(d) == Len(d) <= FrameLen
\* the loop condition: while len(data) < 5404
LoopContinues(d) == Len(d) < FrameLen

\* packet = s.recv(1024) returns n bytes, 1 <= n <= 1024; data += packet
RecvPacket ==
    /\ pc = "recv"
    /\ LoopContinues(data)
    /\ reads < MaxReads
    /\ \E n \in PacketSizes :
          /\ 1 <= n /\ n <= RecvSize
          /\ data' = data \o Packet(stream, Len(data), n)
    /\ reads' = reads + 1
    /\ UNCHANGED <<pc, widgetVars, stream, connects, sent, peer_closed, exc, errors,
                   raised, matrix, mainVars, pattern_table>>

\* s.recv returns b"" (the peer closed): if not packet: break
RecvEmpty ==
    /\ pc = "recv"
    /\ LoopContinues(data)
    /\ peer_closed' = TRUE
    /\ pc' = "decode"
    /\ UNCHANGED <<widgetVars, stream, connects, sent, reads, data, exc, errors,
                   raised, matrix, mainVars, pattern_table>>

\* s.recv raises (socket.timeout after 3 s, connection reset)
RecvRaises ==
    /\ pc = "recv"
    /\ LoopContinues(data)
    /\ exc' = "recv"
    /\ ExceptHandler
    /\ UNCHANGED <<widgetVars, stream, connects, sent, raised, mainVars,
                   pattern_table>>

\* the loop condition is false: the with block ends
RecvDone ==
    /\ pc = "recv"
    /\ ~LoopContinues(data)
    /\ pc' = "decode"
    /\ UNCHANGED <<widgetVars, fetchVars, exc, errors, raised, matrix, mainVars,
                   pattern_table>>

(***************************************************************************)
(* get_pressure_matrix, lines 33-43                                        *)
(***************************************************************************)
\* whether line 42 raises on buffer d
DecodeRaises(d) == ~ReshapeOk(TruncatedLen(ValuesDecoded(d)))

\* the grid lines 33-42 build from buffer d, where line 42 does not raise
DecodeGrid(d) == Reshape(Truncate(SensorValues(d)))

\* the decoder inside the try block: the handler catches reshape's ValueError
DecodeInsideTry ==
    /\ pc = "decode"
    /\ IF ~DecodeRaises(data)
       THEN /\ matrix' = DecodeGrid(data)
            /\ pc' = "decoded"
            /\ UNCHANGED <<raised, data, reads, peer_closed, exc, errors>>
       ELSE /\ exc' = "reshape"
            /\ ExceptHandler
            /\ UNCHANGED raised
    /\ UNCHANGED <<widgetVars, stream, connects, sent, mainVars, pattern_table>>

\* a short buffer padded with zeros instead of raising
DecodePads ==
    /\ pc = "decode"
    /\ matrix' = IF ~DecodeRaises(data) THEN DecodeGrid(data)
                 ELSE [r \in 1..GridSide |-> [c \in 1..GridSide |-> 0]]
    /\ pc' = "decoded"
    /\ UNCHANGED <<widgetVars, fetchVars, exc, errors, raised, mainVars,
                   pattern_table>>

\* lines 33-42: the loop, then reshape gives the matrix or raises ValueError,
\* which nothing catches: the script run ends with the exception
Decode ==
    /\ pc = "decode"
    /\ IF ~DecodeRaises(data)
       THEN /\ matrix' = DecodeGrid(data)
            /\ pc' = "decoded"
            /\ UNCHANGED <<raised, data, reads, peer_closed>>
       ELSE /\ raised' = "ValueError"
            /\ pc' = "done"
            /\ data' = <<>>
            /\ reads' = 0
            /\ peer_closed' = FALSE
            /\ UNCHANGED matrix
    /\ UNCHANGED <<widgetVars, stream, connects, sent, exc, errors, mainVars,
                   pattern_table>>

\* line 43: return matrix; the locals of get_pressure_matrix are gone.
\* main, line 128: matrix is not None
ReturnMatrix ==
    /\ pc = "decoded"
    /\ data' = <<>>
    /\ reads' = 0
    /\ peer_closed' = FALSE
    /\ pc' = "save_image"
    /\ UNCHANGED <<widgetVars, stream, connects, sent, exc, errors, raised, matrix,
                   mainVars, pattern_table>>

(***************************************************************************)
(* main, lines 129-148                                                     *)
(***************************************************************************)
\* line 129: save_pressure_image(matrix) renders the heatmap
SaveImage ==
    /\ pc = "save_image"
    /\ \E img \in Images : image' = img
    /\ pc' = "classify"
    /\ UNCHANGED <<widgetVars, fetchVars, exc, errors, raised, matrix,
                   classifier_calls, arch_type, insole_number, shown, pdfs,
                   pattern_table>>

\* lines 130-132: the arch label and the table lookup
ChooseInsole ==
    /\ pc = "classify"
    /\ arch_type' = ArchType(hallux_valgus, image.m, image.a)
    /\ classifier_calls' =
          IF ClassifierInvoked(hallux_valgus) THEN classifier_calls + 1
          ELSE classifier_calls
    /\ insole_number' = Lookup(pattern_table, <<arch_type', leg_shape>>)
    /\ pc' = "display"
    /\ UNCHANGED <<widgetVars, fetchVars, exc, errors, raised, matrix, image, shown,
                   pdfs, pattern_table>>

\* lines 134-141: the heatmap, the labels, the insole number, the texts
Display ==
    /\ pc = "display"
    /\ shown' = TRUE
    /\ pc' = "pdf_button"
    /\ UNCHANGED <<widgetVars, fetchVars, exc, errors, raised, matrix, image,
                   classifier_calls, arch_type, insole_number, pdfs, pattern_table>>

\* lines 143-148: the PDF button returned True: create_pdf
PdfPressed ==
    /\ pc = "pdf_button"
    /\ pdfs' = pdfs + 1
    /\ pc' = "done"
    /\ UNCHANGED <<widgetVars, fetchVars, exc, errors, raised, matrix, image,
                   classifier_calls, arch_type, insole_number, shown, pattern_table>>

PdfIdle ==
    /\ pc = "pdf_button"
    /\ pc' = "done"
    /\ UNCHANGED <<widgetVars, fetchVars, exc, errors, raised, matrix, mainVars,
                   pattern_table>>

\* Streamlit runs the script again from the top on the next interaction:
\* every local starts afresh, the module-level table is what it was.
Rerun ==
    /\ pc = "done"
    /\ pc' = "start"
    /\ hallux_valgus' = FALSE
    /\ leg_shape' = LegO
    /\ stream' = 0
    /\ connects' = 0
    /\ sent' = <<>>
    /\ reads' = 0
    /\ peer_closed' = FALSE
    /\ data' = <<>>
    /\ exc' = NoneStr
    /\ errors' = 0
    /\ raised' = NoneStr
    /\ matrix' = None
    /\ image' = None
    /\ classifier_calls' = 0
    /\ arch_type' = NoneStr
    /\ insole_number' = None
    /\ shown' = FALSE
    /\ pdfs' = 0
    /\ UNCHANGED pattern_table

Next ==
    \/ ReadWidgets \/ ButtonIdle \/ ButtonPressed
    \/ ConnectOk \/ ConnectRaises \/ SendOk \/ SendRaises
    \/ RecvPacket \/ RecvEmpty \/ RecvRaises \/ RecvDone
    \/ Decode \/ ReturnMatrix
    \/ SaveImage \/ ChooseInsole \/ Display \/ PdfPressed \/ PdfIdle
    \/ Rerun

Spec == Init /\ [][Next]_vars

(***************************************************************************)
(* Properties                                                              *)
(***************************************************************************)
Rows == 1..GridSide
Groups == 0..(DecodeLen \div 3 - 1)
Cell(grid, flat) == grid[(flat \div GridSide) + 1][(flat % GridSide) + 1]
Downstream ==
    \/ image # None \/ classifier_calls # 0 \/ arch_type # NoneStr
    \/ insole_number # None \/ shown \/ pdfs # 0

\* C1: a buffer of at least 5400 bytes always decodes, to a grid of 60 rows of
\* 60 values, each in 0..4095, and the grid is the one its first 5400 bytes
\* alone decode to: the bytes from index 5400 on have no influence.
C1_GridOfPrefix ==
    /\ (pc = "decode" /\ Len(data) >= DecodeLen) => ~DecodeRaises(data)
    /\ pc = "decoded" =>
          /\ Len(data) >= DecodeLen
          /\ Len(matrix) = GridSide
          /\ \A r \in Rows : Len(matrix[r]) = GridSide
          /\ \A r \in Rows : \A c \in Rows : matrix[r][c] \in 0..(2 ^ 12 - 1)
          /\ matrix = DecodeGrid(SubSeq(data, 1, DecodeLen))

\* a grid decoded from a buffer with bytes beyond index 5400, which differ
\* from what another buffer of the same stream holds there
C1_Witness ==
    /\ pc = "decoded"
    /\ stream = 1
    /\ Len(data) = FrameLen + RecvSize - 1
    /\ data[DecodeLen + 1] # 0

\* C2: for every group k in 0..1799 with bytes b0, b1, b2 the grid holds
\* (b0 << 4) | (b1 >> 4) at flat row-major position 2k and
\* ((b1 & 0x0F) << 8) | b2 at 2k + 1; the buffer 0x12 0x34 0x56 repeated
\* decodes to alternating 291 and 1110.
C2_GroupLayout ==
    pc = "decoded" =>
       /\ \A k \in Groups :
             LET b0 == data[3 * k + 1]
                 b1 == data[3 * k + 2]
                 b2 == data[3 * k + 3]
             IN /\ Cell(matrix, 2 * k) = b0 * 16 + b1 \div 16
                /\ Cell(matrix, 2 * k + 1) = (b1 % 16) * 256 + b2
       /\ stream = 0 =>
             \A k \in Groups : /\ Cell(matrix, 2 * k) = 291
                               /\ Cell(matrix, 2 * k + 1) = 1110

\* the fixture decoded from exactly 5400 bytes
C2_Witness ==
    /\ pc = "decoded"
    /\ stream = 0
    /\ Len(data) = DecodeLen
    /\ matrix[1][1] = 291
    /\ matrix[GridSide][GridSide] = 1110

\* C3: on a buffer shorter than 5400 bytes the decoder returns no grid: the
\* step ends the run with ValueError, no network error is shown (the outcome
\* differs from a network failure's), and nothing downstream runs.
C3_ShortfallRaises ==
    [][(pc = "decode" /\ Len(data) < DecodeLen) =>
          /\ raised' = "ValueError"
          /\ pc' = "done"
          /\ matrix' = None
          /\ errors' = 0 /\ exc' = NoneStr
          /\ ~Downstream']_vars

\* the run that ended so, after the request was sent
C3_Witness ==
    /\ pc = "done"
    /\ raised = "ValueError"
    /\ sent = <<REQUEST_BYTES>>
    /\ matrix = None

\* C4: when connect, send or a recv raises, one error is shown, None is
\* returned, no second connection is made, and the run ends without
\* decoding, heatmap, classification, lookup, display or PDF.
C4_NetworkFailure ==
    exc # NoneStr =>
       /\ errors = 1
       /\ matrix = None
       /\ connects = 1
       /\ pc = "done"
       /\ raised = NoneStr
       /\ ~Downstream

\* a recv that raised after some data had arrived is over
C4_Witness ==
    /\ exc = "recv"
    /\ errors = 1
    /\ pc = "done"
    /\ sent = <<REQUEST_BYTES>>

\* C5 as stated: whenever reading stops with fewer than 5404 bytes, the fetch
\* has failed with a reported network error and returned None.
C5_AsStated ==
    (pc \in {"decode", "decoded"} /\ Len(data) < FrameLen) =>
       (errors = 1 /\ matrix = None)

\* C5 amended: reading stops below 5404 bytes without an exception only when
\* the peer closed; then no network error is shown and the decoder runs on
\* what arrived, giving a grid from 5400 bytes on and ValueError below. A
\* socket call that raises gives one error, None and no second connection.
C5_EarlyCloseDecodes ==
    [][/\ (pc \in {"decode", "decoded"} /\ Len(data) < FrameLen) =>
             (peer_closed /\ errors = 0 /\ exc = NoneStr /\ connects = 1)
       /\ (pc = "decode" /\ peer_closed) =>
             /\ errors' = 0 /\ exc' = NoneStr
             /\ IF Len(data) >= DecodeLen
                THEN pc' = "decoded" /\ matrix' # None /\ raised' = NoneStr
                ELSE pc' = "done" /\ matrix' = None /\ raised' = "ValueError"
       /\ exc' # NoneStr => (errors' = 1 /\ matrix' = None /\ connects' = 1)]_vars

\* a grid decoded from an incomplete frame after the peer closed
C5_Witness ==
    /\ pc = "decoded"
    /\ peer_closed
    /\ Len(data) < FrameLen
    /\ errors = 0
    /\ matrix # None

\* the label the claim gives for m mask pixels over box area a
ExactLabel(m, a) ==
    IF a = 0 \/ 100 * m < HighBelow * a THEN "High"
    ELSE IF 100 * m > FlatAbove * a THEN "Flat"
    ELSE "Normal"

\* C6: the classifier returns High iff 100*m/a < 22 (or a = 0), Flat iff
\* 100*m/a > 28, Normal otherwise: ratio exactly 22 and exactly 28 are Normal.
C6_ExactThresholds ==
    (classifier_calls = 1 /\ arch_type # NoneStr) =>
       arch_type = ExactLabel(image.m, image.a)

\* C7: with the flag set the arch label is the hallux valgus label whatever
\* the image, the classifier is not invoked and the insole number depends on
\* the leg shape alone; with the flag unset the label is the classifier's.
C7_FlagForcesLabel ==
    arch_type # NoneStr =>
       IF hallux_valgus
       THEN /\ arch_type = HalluxLabel
            /\ classifier_calls = 0
            /\ insole_number = PyInt(CASE leg_shape = LegO -> 7
                                       [] leg_shape = LegX -> 8
                                       [] leg_shape = LegNormal -> 9)
       ELSE /\ arch_type \in {"High", "Flat", "Normal"}
            /\ arch_type = Classify(image.m, image.a)
            /\ classifier_calls = 1

\* the flag set on an image the classifier would call Flat
C7_Witness ==
    /\ hallux_valgus
    /\ shown
    /\ arch_type = HalluxLabel
    /\ image = [m |-> 281, a |-> 1000]
    /\ Classify(image.m, image.a) = "Flat"

ArchOrder == <<"Flat", "High", HalluxLabel, "Normal">>
LegOrder == <<LegO, LegX, LegNormal>>
Defined == {<<ArchOrder[i], LegOrder[j]>> : i \in 1..4, j \in 1..3}
ProbeKeys ==
    ({ArchOrder[i] : i \in 1..4} \cup {"HalluxValgus", "flat", NoneStr})
       \X ({LegOrder[j] : j \in 1..3} \cup {"Bowleg", "O", NoneStr})

\* C8: the lookup maps the 12 pairs to 1..12 (Flat 1,2,3; High 4,5,6; hallux
\* valgus 7,8,9; Normal 10,11,12 in leg order), every other pair to the
\* no-match value, and no step changes the table.
C8_TableLookup ==
    [][/\ pattern_table' = pattern_table
       /\ DOMAIN pattern_table = Defined
       /\ \A i \in 1..4 : \A j \in 1..3 :
             Lookup(pattern_table, <<ArchOrder[i], LegOrder[j]>>)
                = PyInt(3 * (i - 1) + j)
       /\ \A key \in ProbeKeys \ Defined : Lookup(pattern_table, key) = NoMatch]_vars

\* a lookup made by a run: hallux valgus, normal legs
C8_Witness ==
    /\ shown
    /\ arch_type = HalluxLabel
    /\ leg_shape = LegNormal
    /\ insole_number = PyInt(9)
    /\ pattern_table = PatternTable

\* C9: a displayed insole number is an integer in 1..12, the table's entry
\* for (arch, leg) with arch the hallux valgus label if the flag is set and
\* the classifier's label otherwise; never the no-match value. Flag unset,
\* bow legs and ratio 25 give Normal and 10.
C9_DisplayedNumber ==
    shown =>
       LET arch == IF hallux_valgus THEN HalluxLabel
                   ELSE Classify(image.m, image.a)
       IN /\ insole_number # NoMatch
          /\ insole_number \in {PyInt(n) : n \in 1..12}
          /\ <<arch, leg_shape>> \in DOMAIN pattern_table
          /\ insole_number = PyInt(pattern_table[<<arch, leg_shape>>])
          /\ (~hallux_valgus /\ leg_shape = LegO /\ image = [m |-> 1, a |-> 4])
                => (arch_type = "Normal" /\ insole_number = PyInt(10))

\* the worked example on the screen
C9_Witness ==
    /\ shown
    /\ ~hallux_valgus
    /\ leg_shape = LegO
    /\ image = [m |-> 1, a |-> 4]
    /\ insole_number = PyInt(10)

\* C10: the request is sent once, after the connection and before the first
\* read; without an exception reading stops only at 5404 bytes or more, or
\* when a read returned empty; every read adds at least one byte and the
\* buffer stays below 5404 + 1024 bytes.
C10_FetchProtocol ==
    /\ Len(sent) <= 1
    /\ sent # <<>> => (sent = <<REQUEST_BYTES>> /\ connects = 1)
    /\ (pc \in {"recv", "decode", "decoded"} \/ reads > 0 \/ data # <<>>
          \/ peer_closed) => sent = <<REQUEST_BYTES>>
    /\ pc \in {"decode", "decoded"} => (Len(data) >= FrameLen \/ peer_closed)
    /\ reads <= Len(data)
    /\ Len(data) < FrameLen + RecvSize

\* the longest buffer: 5403 bytes, then a read of 1024
C10_Witness ==
    /\ pc = "decode"
    /\ ~peer_closed
    /\ Len(data) = FrameLen + RecvSize - 1
    /\ sent = <<REQUEST_BYTES>>

====
